---- MODULE Spec2Model ----
(***************************************************************************)
(* The unemployment visualisation endpoint of project/app/api/viz.py:      *)
(* GET /viz/{statecode}?statecode2=&statecode3=&view=                      *)
(*                                                                         *)
(* Representation of Python values.                                        *)
(*   - A str that the code transforms character by character (the state    *)
(*     codes and the view flag) is the sequence of its characters.         *)
(*   - A str built by an f-string or given as a literal (titles, colours,  *)
(*     URLs, the 404 detail) is the sequence of its parts.                 *)
(*   - None is a value different from every str.                           *)
(*   - A DataFrame is the sequence of its rows [Date, Percent]; a date is  *)
(*     [year, month, day]; percentages are whole numbers.                  *)
(*   - A float mean is the exact fraction [num, den]; den = 0 is the NaN   *)
(*     that np.mean returns for an empty selection.                        *)
(***************************************************************************)
EXTENDS Integers, Sequences, FiniteSets, TLC

VARIABLES year, five_yrs, pc, request, slots, calls, frame, response

vars == <<year, five_yrs, pc, request, slots, calls, frame, response>>

-----------------------------------------------------------------------------
(* Bounds of the model *)

StartYear == 2020
MaxTicks == 1
MaxObs == 2

MaxYear == StartYear + MaxTicks

-----------------------------------------------------------------------------
(* Python values *)

None == <<"None">>

Truthy(v) == v # None /\ v # <<>>

Str(s) == <<s>>

get(d, k) == IF k \in DOMAIN d THEN d[k] ELSE None

ascii_lowercase ==
  <<"a", "b", "c", "d", "e", "f", "g", "h", "i", "j", "k", "l", "m",
    "n", "o", "p", "q", "r", "s", "t", "u", "v", "w", "x", "y", "z">>

ascii_uppercase ==
  <<"A", "B", "C", "D", "E", "F", "G", "H", "I", "J", "K", "L", "M",
    "N", "O", "P", "Q", "R", "S", "T", "U", "V", "W", "X", "Y", "Z">>

upper_char(c) ==
  IF \E i \in 1..26 : ascii_lowercase[i] = c
  THEN ascii_uppercase[CHOOSE i \in 1..26 : ascii_lowercase[i] = c]
  ELSE c

lower_char(c) ==
  IF \E i \in 1..26 : ascii_uppercase[i] = c
  THEN ascii_lowercase[CHOOSE i \in 1..26 : ascii_uppercase[i] = c]
  ELSE c

RECURSIVE upper(_)
upper(s) == IF s = <<>> THEN <<>> ELSE <<upper_char(Head(s))>> \o upper(Tail(s))

RECURSIVE lower(_)
lower(s) == IF s = <<>> THEN <<>> ELSE <<lower_char(Head(s))>> \o lower(Tail(s))

\* str.title() of a single word of letters
title(s) == IF s = <<>> THEN <<>> ELSE <<upper_char(Head(s))>> \o lower(Tail(s))

-----------------------------------------------------------------------------
(* The state registry *)

statecodes ==
  (<<"A", "L">> :> "Alabama") @@ (<<"A", "K">> :> "Alaska") @@ (<<"A", "Z">> :> "Arizona") @@
  (<<"A", "R">> :> "Arkansas") @@ (<<"C", "A">> :> "California") @@ (<<"C", "O">> :> "Colorado") @@
  (<<"C", "T">> :> "Connecticut") @@ (<<"D", "E">> :> "Delaware") @@ (<<"D", "C">> :> "District of Columbia") @@
  (<<"F", "L">> :> "Florida") @@ (<<"G", "A">> :> "Georgia") @@ (<<"H", "I">> :> "Hawaii") @@
  (<<"I", "D">> :> "Idaho") @@ (<<"I", "L">> :> "Illinois") @@ (<<"I", "N">> :> "Indiana") @@
  (<<"I", "A">> :> "Iowa") @@ (<<"K", "S">> :> "Kansas") @@ (<<"K", "Y">> :> "Kentucky") @@
  (<<"L", "A">> :> "Louisiana") @@ (<<"M", "E">> :> "Maine") @@ (<<"M", "D">> :> "Maryland") @@
  (<<"M", "A">> :> "Massachusetts") @@ (<<"M", "I">> :> "Michigan") @@ (<<"M", "N">> :> "Minnesota") @@
  (<<"M", "S">> :> "Mississippi") @@ (<<"M", "O">> :> "Missouri") @@ (<<"M", "T">> :> "Montana") @@
  (<<"N", "E">> :> "Nebraska") @@ (<<"N", "V">> :> "Nevada") @@ (<<"N", "H">> :> "New Hampshire") @@
  (<<"N", "J">> :> "New Jersey") @@ (<<"N", "M">> :> "New Mexico") @@ (<<"N", "Y">> :> "New York") @@
  (<<"N", "C">> :> "North Carolina") @@ (<<"N", "D">> :> "North Dakota") @@ (<<"O", "H">> :> "Ohio") @@
  (<<"O", "K">> :> "Oklahoma") @@ (<<"O", "R">> :> "Oregon") @@ (<<"P", "A">> :> "Pennsylvania") @@
  (<<"R", "I">> :> "Rhode Island") @@ (<<"S", "C">> :> "South Carolina") @@ (<<"S", "D">> :> "South Dakota") @@
  (<<"T", "N">> :> "Tennessee") @@ (<<"T", "X">> :> "Texas") @@ (<<"U", "T">> :> "Utah") @@
  (<<"V", "T">> :> "Vermont") @@ (<<"V", "A">> :> "Virginia") @@ (<<"W", "A">> :> "Washington") @@
  (<<"W", "V">> :> "West Virginia") @@ (<<"W", "I">> :> "Wisconsin") @@ (<<"W", "Y">> :> "Wyoming")

-----------------------------------------------------------------------------
(* DataFrames *)

SetMin(S) == CHOOSE x \in S : \A y \in S : x <= y

min_year(df) == SetMin({df[i].Date.year : i \in DOMAIN df})

min_month(df) == SetMin({df[i].Date.month : i \in DOMAIN df})

min_day(df) == SetMin({df[i].Date.day : i \in DOMAIN df})

RECURSIVE SumPercent(_)
SumPercent(df) == IF df = <<>> THEN 0 ELSE Head(df).Percent + SumPercent(Tail(df))

\* np.mean(df['Percent'])
mean(df) == [num |-> SumPercent(df), den |-> Len(df)]

\* >= written for >
Ge(a, b) == a.den > 0 /\ b.den > 0 /\ a.num * b.den >= b.num * a.den

\* <= written for <
Le(a, b) == a.den > 0 /\ b.den > 0 /\ a.num * b.den <= b.num * a.den

\* float comparisons; every comparison with NaN is False
Gt(a, b) == a.den > 0 /\ b.den > 0 /\ a.num * b.den > b.num * a.den

Lt(a, b) == a.den > 0 /\ b.den > 0 /\ a.num * b.den < b.num * a.den

Eq(a, b) == a.den > 0 /\ b.den > 0 /\ a.num * b.den = b.num * a.den

InYear(df, y) == LET Test(o) == o.Date.year = y IN SelectSeq(df, Test)

\* the window year taken from the clock at the time of the request
trailing_mean_now(df) == mean(InYear(df, year - 5))

\* np.mean(df[(df['Date'].dt.year == five_yrs)]['Percent'])
trailing_mean(df) == mean(InYear(df, five_yrs))

RECURSIVE Column(_, _)
Column(df, col) == IF df = <<>> THEN <<>> ELSE <<Head(df)[col]>> \o Column(Tail(df), col)

-----------------------------------------------------------------------------
(* Styling *)

Red == Str("#CC0000")

Green == Str("#4BB543")

DarkCyan == Str("darkcyan")

Black == Str("black")

EmptyDict == [k \in {} |-> None]

single_style(statename, st_5yrs, us_5yrs) ==
  IF Gt(st_5yrs, us_5yrs) THEN
    [title |-> <<statename, " Unemployment Rates Averaged Higher than the United States since ",
                 ToString(five_yrs), ".">>,
     state1color |-> Red,
     us_color |-> Green]
  ELSE IF Lt(st_5yrs, us_5yrs) THEN
    [title |-> <<statename, " Unemployment Rates Averaged Lower than the United States since ",
                 ToString(five_yrs), ".">>,
     state1color |-> Green,
     us_color |-> Red]
  ELSE IF Eq(st_5yrs, us_5yrs) THEN
    [title |-> <<statename, " Averaged the Same Unemployment as the United States since ",
                 ToString(five_yrs), ".">>,
     state1color |-> Green,
     us_color |-> DarkCyan]
  ELSE EmptyDict

\* the Lower branch keeps the colours of the Higher branch
two_style_unswapped(statename, state2, st_5yrs, st2_5yrs) ==
  IF Gt(st_5yrs, st2_5yrs) THEN
    [title |-> <<statename, " Averaged Higher Unemployment than ", state2, " since ",
                 ToString(five_yrs), ".">>,
     state1color |-> Red,
     state2color |-> Green,
     us_color |-> Black]
  ELSE IF Lt(st_5yrs, st2_5yrs) THEN
    [title |-> <<statename, " Averaged Lower Unemployment than ", state2, " since ",
                 ToString(five_yrs), ".">>,
     state1color |-> Red,
     state2color |-> Green,
     us_color |-> Black]
  ELSE IF Eq(st_5yrs, st2_5yrs) THEN
    [title |-> <<statename, " and ", state2, " Averaged the Same Unemployment since ",
                 ToString(five_yrs), ".">>,
     state1color |-> Green,
     state2color |-> DarkCyan,
     us_color |-> Black]
  ELSE EmptyDict

two_style(statename, state2, st_5yrs, st2_5yrs) ==
  IF Gt(st_5yrs, st2_5yrs) THEN
    [title |-> <<statename, " Averaged Higher Unemployment than ", state2, " since ",
                 ToString(five_yrs), ".">>,
     state1color |-> Red,
     state2color |-> Green,
     us_color |-> Black]
  ELSE IF Lt(st_5yrs, st2_5yrs) THEN
    [title |-> <<statename, " Averaged Lower Unemployment than ", state2, " since ",
                 ToString(five_yrs), ".">>,
     state1color |-> Green,
     state2color |-> Red,
     us_color |-> Black]
  ELSE IF Eq(st_5yrs, st2_5yrs) THEN
    [title |-> <<statename, " and ", state2, " Averaged the Same Unemployment since ",
                 ToString(five_yrs), ".">>,
     state1color |-> Green,
     state2color |-> DarkCyan,
     us_color |-> Black]
  ELSE EmptyDict

\* the second branch keeps the colours of the first
three_style_copied(statename, state2, state3, st_5yrs, st2_5yrs, st3_5yrs) ==
  IF Gt(st_5yrs, st2_5yrs) /\ Gt(st2_5yrs, st3_5yrs) THEN
    [title |-> <<statename, " Averaged Higher Unemployment than ", state2, " and ", state3,
                 " since ", ToString(five_yrs), ".">>,
     state1color |-> Red,
     state2color |-> DarkCyan,
     state3color |-> Green,
     us_color |-> Black]
  ELSE IF Gt(st_5yrs, st3_5yrs) /\ Gt(st3_5yrs, st2_5yrs) THEN
    [title |-> <<statename, " Averaged Higher Unemployment than ", state2, " and ", state3,
                 " since ", ToString(five_yrs), ".">>,
     state1color |-> Red,
     state2color |-> DarkCyan,
     state3color |-> Green,
     us_color |-> Black]
  ELSE IF Gt(st2_5yrs, st_5yrs) /\ Gt(st_5yrs, st3_5yrs) THEN
    [title |-> <<statename, " Averaged Higher Unemployment than ", state3, ", but lower than ",
                 state2, " since ", ToString(five_yrs), ".">>,
     state1color |-> DarkCyan,
     state2color |-> Red,
     state3color |-> Green,
     us_color |-> Black]
  ELSE IF Gt(st2_5yrs, st3_5yrs) /\ Gt(st3_5yrs, st_5yrs) THEN
    [title |-> <<statename, " Averaged Lower Unemployment than ", state2, " and ", state3,
                 " since ", ToString(five_yrs), ".">>,
     state1color |-> Green,
     state2color |-> Red,
     state3color |-> DarkCyan,
     us_color |-> Black]
  ELSE IF Gt(st3_5yrs, st2_5yrs) /\ Gt(st2_5yrs, st_5yrs) THEN
    [title |-> <<statename, " Averaged Lower Unemployment than ", state2, " and ", state3,
                 " since ", ToString(five_yrs), ".">>,
     state1color |-> Green,
     state2color |-> DarkCyan,
     state3color |-> Red,
     us_color |-> Black]
  ELSE IF Gt(st3_5yrs, st_5yrs) /\ Gt(st_5yrs, st2_5yrs) THEN
    [title |-> <<statename, " Averaged Lower Unemployment than ", state3, ", but higher than ",
                 state2, " since ", ToString(five_yrs), ".">>,
     state1color |-> DarkCyan,
     state2color |-> Green,
     state3color |-> Red,
     us_color |-> Black]
  ELSE EmptyDict

three_style(statename, state2, state3, st_5yrs, st2_5yrs, st3_5yrs) ==
  IF Gt(st_5yrs, st2_5yrs) /\ Gt(st2_5yrs, st3_5yrs) THEN
    [title |-> <<statename, " Averaged Higher Unemployment than ", state2, " and ", state3,
                 " since ", ToString(five_yrs), ".">>,
     state1color |-> Red,
     state2color |-> DarkCyan,
     state3color |-> Green,
     us_color |-> Black]
  ELSE IF Gt(st_5yrs, st3_5yrs) /\ Gt(st3_5yrs, st2_5yrs) THEN
    [title |-> <<statename, " Averaged Higher Unemployment than ", state2, " and ", state3,
                 " since ", ToString(five_yrs), ".">>,
     state1color |-> Red,
     state2color |-> Green,
     state3color |-> DarkCyan,
     us_color |-> Black]
  ELSE IF Gt(st2_5yrs, st_5yrs) /\ Gt(st_5yrs, st3_5yrs) THEN
    [title |-> <<statename, " Averaged Higher Unemployment than ", state3, ", but lower than ",
                 state2, " since ", ToString(five_yrs), ".">>,
     state1color |-> DarkCyan,
     state2color |-> Red,
     state3color |-> Green,
     us_color |-> Black]
  ELSE IF Gt(st2_5yrs, st3_5yrs) /\ Gt(st3_5yrs, st_5yrs) THEN
    [title |-> <<statename, " Averaged Lower Unemployment than ", state2, " and ", state3,
                 " since ", ToString(five_yrs), ".">>,
     state1color |-> Green,
     state2color |-> Red,
     state3color |-> DarkCyan,
     us_color |-> Black]
  ELSE IF Gt(st3_5yrs, st2_5yrs) /\ Gt(st2_5yrs, st_5yrs) THEN
    [title |-> <<statename, " Averaged Lower Unemployment than ", state2, " and ", state3,
                 " since ", ToString(five_yrs), ".">>,
     state1color |-> Green,
     state2color |-> DarkCyan,
     state3color |-> Red,
     us_color |-> Black]
  ELSE IF Gt(st3_5yrs, st_5yrs) /\ Gt(st_5yrs, st2_5yrs) THEN
    [title |-> <<statename, " Averaged Lower Unemployment than ", state3, ", but higher than ",
                 state2, " since ", ToString(five_yrs), ".">>,
     state1color |-> DarkCyan,
     state2color |-> Green,
     state3color |-> Red,
     us_color |-> Black]
  ELSE EmptyDict

-----------------------------------------------------------------------------
(* Restructuring the national series to the state series' start dates *)

single_df_us(df_us, df) ==
  LET Keep(o) == /\ o.Date.year >= min_year(df)
                 /\ o.Date.month >= min_month(df)
                 /\ o.Date.day >= min_day(df)
  IN SelectSeq(df_us, Keep)

two_df_us(df_us, df, df_2) ==
  LET Keep(o) == /\ o.Date.year >= min_year(df)
                 /\ o.Date.year >= min_year(df_2)
                 /\ o.Date.month >= min_month(df)
                 /\ o.Date.month >= min_month(df_2)
                 /\ o.Date.day >= min_day(df)
                 /\ o.Date.day >= min_day(df_2)
  IN SelectSeq(df_us, Keep)

\* the day of the third state series is not compared
three_df_us_no_day(df_us, df, df_2, df_3) ==
  LET Keep(o) == /\ o.Date.year >= min_year(df)
                 /\ o.Date.year >= min_year(df_2)
                 /\ o.Date.year >= min_year(df_3)
                 /\ o.Date.month >= min_month(df)
                 /\ o.Date.month >= min_month(df_2)
                 /\ o.Date.month >= min_month(df_3)
                 /\ o.Date.day >= min_day(df)
                 /\ o.Date.day >= min_day(df_2)
  IN SelectSeq(df_us, Keep)

three_df_us(df_us, df, df_2, df_3) ==
  LET Keep(o) == /\ o.Date.year >= min_year(df)
                 /\ o.Date.year >= min_year(df_2)
                 /\ o.Date.year >= min_year(df_3)
                 /\ o.Date.month >= min_month(df)
                 /\ o.Date.month >= min_month(df_2)
                 /\ o.Date.month >= min_month(df_3)
                 /\ o.Date.day >= min_day(df)
                 /\ o.Date.day >= min_day(df_2)
                 /\ o.Date.day >= min_day(df_3)
  IN SelectSeq(df_us, Keep)

-----------------------------------------------------------------------------
(* Figures and responses *)

url(statecode) == <<"https://fred.stlouisfed.org/graph/fredgraph.csv?id=", statecode, "UR">>

us_url == <<"https://fred.stlouisfed.org/graph/fredgraph.csv?id=UNRATE">>

Scatter(df, name, line) ==
  [x |-> Column(df, "Date"), y |-> Column(df, "Percent"), name |-> name, line |-> line]

Layout(style, size) ==
  [paper_bgcolor |-> "rgba(0,0,0,0)",
   plot_bgcolor |-> "rgba(0,0,0,0)",
   title_text |-> get(style, "title"),
   font |-> [family |-> "Open Sans, extra bold", size |-> 9],
   legend_title |-> "States",
   size |-> size,
   xaxis_title |-> "Date",
   yaxis_title |-> "Percent Unemployed"]

\* StreamingResponse(io.BytesIO(fig.to_image(format="png")), media_type="image/png")
\* or fig.to_json()
Render(fig, view) ==
  IF Truthy(view)
  THEN [status |-> 200, media_type |-> "image/png", body |-> [png |-> fig]]
  ELSE [status |-> 200, media_type |-> "application/json", body |-> [json |-> fig]]

-----------------------------------------------------------------------------
(* The builders.  csv, csv_2, csv_3 and csv_us are what pd.read_csv returns  *)
(* for the state series and the national series.                           *)

single(statecode, view, csv, csv_us) ==
  LET statename == get(statecodes, statecode)
      df_us == single_df_us(csv_us, csv)
      us_5yrs == trailing_mean(df_us)
      st_5yrs == trailing_mean(csv)
      style == single_style(statename, st_5yrs, us_5yrs)
      fig == [data |-> << Scatter(csv, statename, [color |-> get(style, "state1color")]),
                          Scatter(df_us, "United States",
                                  [color |-> get(style, "us_color"), dash |-> "dash"]) >>,
              layout |-> Layout(style, None)]
  IN [urls |-> <<url(statecode), us_url>>,
      df |-> <<csv>>, csv_us |-> csv_us, df_us |-> df_us,
      means |-> <<st_5yrs>>, us_5yrs |-> us_5yrs,
      style |-> style,
      response |-> Render(fig, view)]

two(statecode, statecode2, view, csv, csv_2, csv_us) ==
  LET statename == get(statecodes, statecode)
      state2 == get(statecodes, statecode2)
      df_us == two_df_us(csv_us, csv, csv_2)
      st_5yrs == trailing_mean(csv)
      st2_5yrs == trailing_mean(csv_2)
      style == two_style(statename, state2, st_5yrs, st2_5yrs)
      fig == [data |-> << Scatter(csv, statename, [color |-> get(style, "state1color")]),
                          Scatter(csv_2, state2, [color |-> get(style, "state2color")]),
                          Scatter(df_us, "United States",
                                  [color |-> get(style, "us_color"), dash |-> "dash"]) >>,
              layout |-> Layout(style, [height |-> 412, width |-> 640])]
  IN [urls |-> <<url(statecode), url(statecode2), us_url>>,
      df |-> <<csv, csv_2>>, csv_us |-> csv_us, df_us |-> df_us,
      means |-> <<st_5yrs, st2_5yrs>>,
      style |-> style,
      response |-> Render(fig, view)]

three(statecode, statecode2, statecode3, view, csv, csv_2, csv_3, csv_us) ==
  LET statename == get(statecodes, statecode)
      state2 == get(statecodes, statecode2)
      state3 == get(statecodes, statecode3)
      df_us == three_df_us(csv_us, csv, csv_2, csv_3)
      st_5yrs == trailing_mean(csv)
      st2_5yrs == trailing_mean(csv_2)
      st3_5yrs == trailing_mean(csv_3)
      style == three_style(statename, state2, state3, st_5yrs, st2_5yrs, st3_5yrs)
      fig == [data |-> << Scatter(csv, statename, [color |-> get(style, "state1color")]),
                          Scatter(df_us, "United States",
                                  [color |-> get(style, "us_color"), dash |-> "dash"]),
                          Scatter(csv_2, state2, [color |-> get(style, "state2color")]),
                          Scatter(csv_3, state3, [color |-> get(style, "state3color")]) >>,
              layout |-> Layout(style, None)]
  IN [urls |-> <<url(statecode), url(statecode2), url(statecode3), us_url>>,
      df |-> <<csv, csv_2, csv_3>>, csv_us |-> csv_us, df_us |-> df_us,
      means |-> <<st_5yrs, st2_5yrs, st3_5yrs>>,
      style |-> style,
      response |-> Render(fig, view)]

-----------------------------------------------------------------------------
(* The request handler *)

\* lines 62-66: upper-case the codes that are given
normalise(statecode, statecode2, statecode3) ==
  << upper(statecode),
     IF Truthy(statecode2) THEN upper(statecode2) ELSE statecode2,
     IF Truthy(statecode3) THEN upper(statecode3) ELSE statecode3 >>

\* the third code is not validated
not_found_first_two(s) ==
  IF s[1] \notin DOMAIN statecodes THEN s[1]
  ELSE IF s[2] \notin DOMAIN statecodes /\ Truthy(s[2]) THEN s[2]
  ELSE None

\* lines 68-76: the code the HTTPException names, None when none is raised
not_found(s) ==
  IF s[1] \notin DOMAIN statecodes THEN s[1]
  ELSE IF s[2] \notin DOMAIN statecodes /\ Truthy(s[2]) THEN s[2]
  ELSE IF s[3] \notin DOMAIN statecodes /\ Truthy(s[3]) THEN s[3]
  ELSE None

\* code1 = code2 always clears slot 2, a third code is not promoted
dedup_no_promotion(s) ==
  LET s1 == IF s[1] = s[2] /\ s[2] = s[3] THEN <<s[1], None, None>> ELSE s
      s2 == IF s1[1] = s1[3] THEN <<s1[1], s1[2], None>> ELSE s1
      s3 == IF s2[2] = s2[3] THEN <<s2[1], s2[2], None>> ELSE s2
      s4 == IF s3[1] = s3[2] THEN <<s3[1], None, s3[3]>> ELSE s3
  IN s4

\* lines 78-93: four consecutive if statements, each on the slots the previous one left
dedup(s) ==
  LET s1 == IF s[1] = s[2] /\ s[2] = s[3] THEN <<s[1], None, None>> ELSE s
      s2 == IF s1[1] = s1[3] THEN <<s1[1], s1[2], None>> ELSE s1
      s3 == IF s2[2] = s2[3] THEN <<s2[1], s2[2], None>> ELSE s2
      s4 == IF s3[1] = s3[2]
            THEN IF Truthy(s3[3]) THEN <<s3[1], s3[3], None>> ELSE <<s3[1], None, s3[3]>>
            ELSE s3
  IN s4

\* view and view.title() == 'True': the view argument the builder receives
builder_view(view) ==
  IF Truthy(view) /\ title(view) = <<"T", "r", "u", "e">> THEN <<"T", "r", "u", "e">> ELSE None

-----------------------------------------------------------------------------
(* Inputs: requests and the series the provider returns *)

WindowYear == StartYear - 5

PathCodes == { <<"C", "A">>, <<"c", "a">>, <<"N", "Y">>, <<"Z", "Z">> }

QueryCodes == { None, <<>>, <<"C", "A">>, <<"c", "a">>, <<"N", "Y">>, <<"T", "X">>, <<"Z", "Z">> }

Views == { None, <<"t", "r", "u", "e">> }

Obs(y, m, d, p) == [Date |-> [year |-> y, month |-> m, day |-> d], Percent |-> p]

StateObs == { Obs(WindowYear - 1, 12, 15, 6), Obs(WindowYear, 1, 1, 4), Obs(WindowYear, 2, 15, 5) }

USObs == { Obs(WindowYear - 1, 12, 31, 5), Obs(WindowYear, 3, 1, 6), Obs(WindowYear, 6, 15, 4) }

DateLt(a, b) ==
  \/ a.year < b.year
  \/ a.year = b.year /\ a.month < b.month
  \/ a.year = b.year /\ a.month = b.month /\ a.day < b.day

Chronological(s) == \A i, j \in DOMAIN s : i < j => DateLt(s[i].Date, s[j].Date)

SeriesOver(O) == UNION { {s \in [1..n -> O] : Chronological(s)} : n \in 1..MaxObs }

StatePool == SeriesOver(StateObs)

USPool == SeriesOver(USObs)

NoFrame == [urls |-> <<>>]

-----------------------------------------------------------------------------
(* Specification *)

Init ==
  /\ year = StartYear
  /\ five_yrs = year - 5
  /\ pc = "idle"
  /\ request = None
  /\ slots = None
  /\ calls = <<>>
  /\ frame = NoFrame
  /\ response = None

\* the calendar year datetime.now() reads moves on while the process runs
Tick ==
  /\ pc = "idle"
  /\ year < MaxYear
  /\ year' = year + 1
  /\ UNCHANGED <<five_yrs, pc, request, slots, calls, frame, response>>

unemployment_visualization ==
  /\ pc = "idle"
  /\ \E statecode \in PathCodes, statecode2 \in QueryCodes, statecode3 \in QueryCodes, view \in Views :
       LET s == normalise(statecode, statecode2, statecode3)
           bad == not_found(s)
           d == dedup(s)
           v == builder_view(view)
       IN /\ request' = [statecode |-> statecode, statecode2 |-> statecode2,
                         statecode3 |-> statecode3, view |-> view]
          /\ IF bad # None THEN
               /\ slots' = s
               /\ calls' = <<>>
               /\ frame' = NoFrame
               /\ response' = [status |-> 404, detail |-> <<"State code ", bad, " not found">>]
             ELSE IF Truthy(d[1]) /\ ~Truthy(d[2]) /\ ~Truthy(d[3]) THEN
               \E csv \in StatePool, csv_us \in USPool :
                 LET f == single(d[1], v, csv, csv_us)
                 IN /\ slots' = d
                    /\ calls' = <<[fn |-> "single", args |-> <<d[1]>>, view |-> v]>>
                    /\ frame' = f
                    /\ response' = f.response
             ELSE IF Truthy(d[1]) /\ Truthy(d[2]) /\ ~Truthy(d[3]) THEN
               \E csv \in StatePool, csv_2 \in StatePool, csv_us \in USPool :
                 LET f == two(d[1], d[2], v, csv, csv_2, csv_us)
                 IN /\ slots' = d
                    /\ calls' = <<[fn |-> "two", args |-> <<d[1], d[2]>>, view |-> v]>>
                    /\ frame' = f
                    /\ response' = f.response
             ELSE IF Truthy(d[1]) /\ Truthy(d[2]) /\ Truthy(d[3]) THEN
               \E csv \in StatePool, csv_2 \in StatePool, csv_3 \in StatePool, csv_us \in USPool :
                 LET f == three(d[1], d[2], d[3], v, csv, csv_2, csv_3, csv_us)
                 IN /\ slots' = d
                    /\ calls' = <<[fn |-> "three", args |-> <<d[1], d[2], d[3]>>, view |-> v]>>
                    /\ frame' = f
                    /\ response' = f.response
             ELSE
               /\ slots' = d
               /\ calls' = <<>>
               /\ frame' = NoFrame
               /\ response' = [status |-> 200, media_type |-> "application/json", body |-> None]
  /\ pc' = "responded"
  /\ UNCHANGED <<year, five_yrs>>

\* the response is sent and the request's values are discarded
Return ==
  /\ pc = "responded"
  /\ pc' = "idle"
  /\ request' = None
  /\ slots' = None
  /\ calls' = <<>>
  /\ frame' = NoFrame
  /\ response' = None
  /\ UNCHANGED <<year, five_yrs>>

Next == Tick \/ unemployment_visualization \/ Return

Spec == Init /\ [][Next]_vars

-----------------------------------------------------------------------------
(* Vocabulary of the properties *)

Responded == pc = "responded"

Given(c) == c # None /\ c # <<>>

\* the distinct non-empty codes of the request, upper-cased
RequestCodes ==
  { upper(c) : c \in { x \in {request.statecode, request.statecode2, request.statecode3} : Given(x) } }

RequestValid == RequestCodes \subseteq DOMAIN statecodes

Called(fn) == Responded /\ Len(calls) = 1 /\ calls[1].fn = fn

Defined(m) == m.den > 0

Above(a, b) == Defined(a) /\ Defined(b) /\ a.num * b.den > b.num * a.den

Tied(a, b) == Defined(a) /\ Defined(b) /\ a.num * b.den = b.num * a.den

Name(code) == statecodes[code]

Since == ToString(StartYear - 5)

-----------------------------------------------------------------------------
(* C1: every valid request invokes exactly one builder, the one whose arity *)
(* is the number of distinct non-empty codes, with pairwise distinct codes. *)

BuilderOfArity == <<"single", "two", "three">>

C1_OneBuilderPerValidRequest ==
  (Responded /\ RequestValid) =>
     /\ Len(calls) = 1
     /\ Len(calls[1].args) = Cardinality(RequestCodes)
     /\ calls[1].fn = BuilderOfArity[Cardinality(RequestCodes)]
     /\ { calls[1].args[i] : i \in DOMAIN calls[1].args } = RequestCodes

-----------------------------------------------------------------------------
(* C2: a request with an unrecognized non-empty code ends with 404 whose    *)
(* detail names an unrecognized code of the request, and no series has been *)
(* retrieved.                                                              *)

C2_NotFoundBeforeFetch ==
  (Responded /\ ~RequestValid) =>
     /\ response.status = 404
     /\ \E c \in RequestCodes \ DOMAIN statecodes :
          response.detail = <<"State code ", c, " not found">>
     /\ calls = <<>>
     /\ frame.urls = <<>>

C2_Witness ==
  /\ Responded
  /\ request.statecode = <<"c", "a">>
  /\ request.statecode2 = <<"N", "Y">>
  /\ request.statecode3 = <<"Z", "Z">>
  /\ response.status = 404
  /\ response.detail = <<"State code ", <<"Z", "Z">>, " not found">>

-----------------------------------------------------------------------------
(* C3: for valid requests the slots left by the four consecutive if         *)
(* statements are the slots of the precedence chain: all equal, else        *)
(* code1 = code3, else code2 = code3, else code1 = code2.                   *)

Chain(s) ==
  IF s[1] = s[2] /\ s[2] = s[3] THEN <<s[1], None, None>>
  ELSE IF s[1] = s[3] THEN <<s[1], s[2], None>>
  ELSE IF s[2] = s[3] THEN <<s[1], s[2], None>>
  ELSE IF s[1] = s[2] THEN (IF Given(s[3]) THEN <<s[1], s[3], None>> ELSE <<s[1], None, s[3]>>)
  ELSE s

Upcased(c) == IF Given(c) THEN upper(c) ELSE c

C3_DedupIsChain ==
  (Responded /\ RequestValid) =>
     slots = Chain(<<Upcased(request.statecode), Upcased(request.statecode2),
                     Upcased(request.statecode3)>>)

C3_Witness ==
  /\ Responded
  /\ request.statecode = <<"C", "A">>
  /\ request.statecode2 = <<"c", "a">>
  /\ request.statecode3 = <<"N", "Y">>
  /\ slots = << <<"C", "A">>, <<"N", "Y">>, None >>
  /\ Called("two")

-----------------------------------------------------------------------------
(* Colours, titles and figures as the properties name them *)

ErrorRed == <<"#CC0000">>

SuccessGreen == <<"#4BB543">>

NeutralTeal == <<"darkcyan">>

NationalBlack == <<"black">>

Style(k) == IF k \in DOMAIN frame.style THEN frame.style[k] ELSE None

Mean(i) == frame.means[i]

Arg(i) == calls[1].args[i]

Fig == IF "json" \in DOMAIN response.body THEN response.body.json ELSE response.body.png

-----------------------------------------------------------------------------
(* C4: in three(), for each of the six strict orderings of the three means  *)
(* one branch is taken; it colours the highest state error-red, the lowest  *)
(* success-green, the middle one darkcyan and the national series black;    *)
(* its title gives state 1's rank; and the six orderings select six         *)
(* pairwise different (title, colour triple) narratives.                    *)

StrictOrder(m) == \A i, j \in 1..3 : i # j => (Above(m[i], m[j]) \/ Above(m[j], m[i]))

Highest(m, i) == \A j \in 1..3 \ {i} : Above(m[i], m[j])

Lowest(m, i) == \A j \in 1..3 \ {i} : Above(m[j], m[i])

RankColour(m, i) ==
  IF Highest(m, i) THEN ErrorRed ELSE IF Lowest(m, i) THEN SuccessGreen ELSE NeutralTeal

RankTitle(m, n1, n2, n3) ==
  IF Highest(m, 1) THEN
    <<n1, " Averaged Higher Unemployment than ", n2, " and ", n3, " since ", Since, ".">>
  ELSE IF Lowest(m, 1) THEN
    <<n1, " Averaged Lower Unemployment than ", n2, " and ", n3, " since ", Since, ".">>
  ELSE IF Above(m[2], m[1]) THEN
    <<n1, " Averaged Higher Unemployment than ", n3, ", but lower than ", n2, " since ", Since, ".">>
  ELSE
    <<n1, " Averaged Lower Unemployment than ", n3, ", but higher than ", n2, " since ", Since, ".">>

Narrative(style) ==
  <<get(style, "title"), get(style, "state1color"), get(style, "state2color"),
    get(style, "state3color")>>

Whole(n) == [num |-> n, den |-> 1]

Orderings ==
  { <<Whole(p[1]), Whole(p[2]), Whole(p[3])>> :
      p \in { q \in [1..3 -> 1..3] : Cardinality({q[1], q[2], q[3]}) = 3 } }

SameOrder(a, b) == \A i, j \in 1..3 : Above(a[i], a[j]) <=> Above(b[i], b[j])

C4_ThreeStrictOrderings ==
  (Called("three") /\ StrictOrder(frame.means)) =>
     LET m == frame.means
         n1 == Name(Arg(1))
         n2 == Name(Arg(2))
         n3 == Name(Arg(3))
     IN /\ DOMAIN frame.style = {"title", "state1color", "state2color", "state3color", "us_color"}
        /\ Style("state1color") = RankColour(m, 1)
        /\ Style("state2color") = RankColour(m, 2)
        /\ Style("state3color") = RankColour(m, 3)
        /\ Style("us_color") = NationalBlack
        /\ Style("title") = RankTitle(m, n1, n2, n3)
        /\ \A o \in Orderings :
             ~SameOrder(o, m) =>
                Narrative(three_style(n1, n2, n3, o[1], o[2], o[3])) # Narrative(frame.style)

\* state 1 between the two others, state 3 the highest
C4_Witness ==
  /\ Called("three")
  /\ Above(Mean(3), Mean(1))
  /\ Above(Mean(1), Mean(2))
  /\ Style("state1color") = NeutralTeal
  /\ Style("state2color") = SuccessGreen
  /\ Style("state3color") = ErrorRed

-----------------------------------------------------------------------------
(* C5: two() is antisymmetric: when A's mean is above B's, two(A, B) gives  *)
(* the 'A Averaged Higher Unemployment than B' title with A red and B green,*)
(* and two(B, A) gives the 'B Averaged Lower Unemployment than A' title     *)
(* with the slot colours swapped; the national series is black in both.     *)

C5_TwoAntisymmetric ==
  (Called("two") /\ Above(Mean(1), Mean(2))) =>
     LET A == Name(Arg(1))
         B == Name(Arg(2))
         swapped == two(Arg(2), Arg(1), calls[1].view, frame.df[2], frame.df[1], frame.csv_us)
     IN /\ Style("title") = <<A, " Averaged Higher Unemployment than ", B, " since ", Since, ".">>
        /\ Style("state1color") = ErrorRed
        /\ Style("state2color") = SuccessGreen
        /\ Style("us_color") = NationalBlack
        /\ get(swapped.style, "title") =
             <<B, " Averaged Lower Unemployment than ", A, " since ", Since, ".">>
        /\ get(swapped.style, "state1color") = SuccessGreen
        /\ get(swapped.style, "state2color") = ErrorRed
        /\ get(swapped.style, "us_color") = NationalBlack

C5_Witness ==
  /\ Called("two")
  /\ Arg(1) = <<"N", "Y">>
  /\ Arg(2) = <<"C", "A">>
  /\ Above(Mean(1), Mean(2))
  /\ Style("state1color") = ErrorRed

-----------------------------------------------------------------------------
(* C6: in two(), equal means select the 'Averaged the Same Unemployment'    *)
(* title with the neutral colour darkcyan and never the Higher or Lower     *)
(* title; the 'same' title is selected only when the means are equal.       *)

C6_TwoTieIsSame ==
  Called("two") =>
     LET A == Name(Arg(1))
         B == Name(Arg(2))
         sameTitle == <<A, " and ", B, " Averaged the Same Unemployment since ", Since, ".">>
         higherTitle == <<A, " Averaged Higher Unemployment than ", B, " since ", Since, ".">>
         lowerTitle == <<A, " Averaged Lower Unemployment than ", B, " since ", Since, ".">>
     IN /\ Tied(Mean(1), Mean(2)) <=> Style("title") = sameTitle
        /\ Tied(Mean(1), Mean(2)) =>
             /\ Style("state2color") = NeutralTeal
             /\ Style("title") # higherTitle
             /\ Style("title") # lowerTitle

\* two different series with the same mean
C6_Witness ==
  /\ Called("two")
  /\ Tied(Mean(1), Mean(2))
  /\ frame.df[1] # frame.df[2]
  /\ Style("state2color") = NeutralTeal

-----------------------------------------------------------------------------
(* C7: in single(), defined means select exactly one of three narratives:   *)
(* state above national gives the Higher title, state red, national green;  *)
(* state below national gives the Lower title, state green, national red;   *)
(* equal means give the 'Averaged the Same' title, national darkcyan.       *)

C7_SingleNarratives ==
  (Called("single") /\ Defined(Mean(1)) /\ Defined(frame.us_5yrs)) =>
     LET st == Mean(1)
         us == frame.us_5yrs
         n == Name(Arg(1))
         higherTitle ==
           <<n, " Unemployment Rates Averaged Higher than the United States since ", Since, ".">>
         lowerTitle ==
           <<n, " Unemployment Rates Averaged Lower than the United States since ", Since, ".">>
         sameTitle ==
           <<n, " Averaged the Same Unemployment as the United States since ", Since, ".">>
     IN /\ Above(st, us) =>
             /\ Style("title") = higherTitle
             /\ Style("state1color") = ErrorRed
             /\ Style("us_color") = SuccessGreen
        /\ Above(us, st) =>
             /\ Style("title") = lowerTitle
             /\ Style("state1color") = SuccessGreen
             /\ Style("us_color") = ErrorRed
        /\ Tied(st, us) =>
             /\ Style("title") = sameTitle
             /\ Style("us_color") = NeutralTeal
        /\ Cardinality({ x \in {higherTitle, lowerTitle, sameTitle} : x = Style("title") }) = 1

\* /viz/CA with trailing means CA = 5.0 and US = 4.0
C7_Witness ==
  /\ Called("single")
  /\ Arg(1) = <<"C", "A">>
  /\ Mean(1) = [num |-> 5, den |-> 1]
  /\ frame.us_5yrs = [num |-> 4, den |-> 1]
  /\ Style("title") = <<"California",
                        " Unemployment Rates Averaged Higher than the United States since ",
                        Since, ".">>
  /\ Style("state1color") = ErrorRed
  /\ Style("us_color") = SuccessGreen

-----------------------------------------------------------------------------
(* C8 as stated: the national series keeps an observation iff its year,     *)
(* month and day each reach the smallest year, month and day occurring in   *)
(* any of the requested state series.                                       *)

SetMax(S) == CHOOSE x \in S : \A y \in S : x >= y

Smallest(S) == CHOOSE x \in S : \A y \in S : x <= y

Component(df, c) == { df[i].Date[c] : i \in DOMAIN df }

AllComponents(c) == UNION { Component(frame.df[k], c) : k \in DOMAIN frame.df }

KeptFromGlobalMinimum ==
  LET Keep(o) == \A c \in {"year", "month", "day"} : o.Date[c] >= Smallest(AllComponents(c))
  IN SelectSeq(frame.csv_us, Keep)

C8_GlobalMinimum ==
  (Responded /\ Len(calls) = 1) => frame.df_us = KeptFromGlobalMinimum

(* C8 amended: the national series keeps an observation iff its year, month *)
(* and day each reach the minimum year, month and day of every requested    *)
(* state series, that is the largest of the per-series minima, the three    *)
(* components being thresholded independently; for 1, 2 and 3 states.       *)

Threshold(c) == SetMax({ Smallest(Component(frame.df[k], c)) : k \in DOMAIN frame.df })

KeptFromPerSeriesMinimum ==
  LET Keep(o) == \A c \in {"year", "month", "day"} : o.Date[c] >= Threshold(c)
  IN SelectSeq(frame.csv_us, Keep)

C8_PerSeriesMinimum ==
  (Responded /\ Len(calls) = 1) => frame.df_us = KeptFromPerSeriesMinimum

\* three states, where only the day of the third series drops an observation
\* that the smallest day of all the series would keep
C8_Witness ==
  /\ Called("three")
  /\ Threshold("day") = Smallest(Component(frame.df[3], "day"))
  /\ Threshold("day") > Smallest(AllComponents("day"))
  /\ \E i \in DOMAIN frame.csv_us :
       /\ frame.csv_us[i].Date.year >= Threshold("year")
       /\ frame.csv_us[i].Date.month >= Threshold("month")
       /\ frame.csv_us[i].Date.day < Threshold("day")
  /\ frame.df_us # KeptFromGlobalMinimum
  /\ frame.df_us # frame.csv_us

-----------------------------------------------------------------------------
(* C9: in three(), when at least two of the three means are equal no branch *)
(* is taken: no title and no colour is set, and the request still returns a *)
(* chart.                                                                  *)

AnyTie == Tied(Mean(1), Mean(2)) \/ Tied(Mean(1), Mean(3)) \/ Tied(Mean(2), Mean(3))

C9_ThreeTieUnstyled ==
  (Called("three") /\ AnyTie) =>
     /\ DOMAIN frame.style = {}
     /\ response.status = 200
     /\ Len(Fig.data) = 4
     /\ Fig.layout.title_text = None
     /\ \A i \in 1..4 : Fig.data[i].line.color = None

\* a pairwise tie that is not the three-way tie
C9_Witness ==
  /\ Called("three")
  /\ Tied(Mean(1), Mean(2))
  /\ Above(Mean(3), Mean(1))
  /\ response.status = 200
  /\ Fig.layout.title_text = None

-----------------------------------------------------------------------------
(* C10: five_yrs is the calendar year at process start minus 5 and stays    *)
(* so: every request takes its means and its title from that window year,   *)
(* also when the calendar year has moved on since the start.                *)

C10_WindowFixedAtStart ==
  /\ five_yrs = StartYear - 5
  /\ (Responded /\ Len(calls) = 1) =>
        /\ \A i \in DOMAIN frame.means :
             frame.means[i] = mean(InYear(frame.df[i], StartYear - 5))
        /\ Style("title") # None =>
             Style("title")[Len(Style("title")) - 1] = ToString(StartYear - 5)

C10_Witness ==
  /\ Responded
  /\ Len(calls) = 1
  /\ year # StartYear
  /\ Defined(Mean(1))
  /\ Style("title") # None

====
